---- MODULE Spec2Model ----
(***************************************************************************)
(* Model of pkg/packaging/spec.go: the EbpfRegistry facade that pushes an  *)
(* EbpfPackage (program bytes + JSON config) to an OCI registry and pulls  *)
(* it back.  Byte strings are sequences of integers 0..255.                *)
(***************************************************************************)
EXTENDS Integers, Sequences, FiniteSets, TLC

(***************************************************************************)
(* Bounds of the model.                                                    *)
(***************************************************************************)
\* longest Info string a caller passes to Push
MaxInfoLen == 1
\* number of calls that write to the registry (Push calls and foreign
\* clients' pushes) started in one behaviour; Pull calls are not limited
MaxPushes == 2

(***************************************************************************)
(* Constants of spec.go (lines 14-20).                                     *)
(***************************************************************************)
configMediaType == "application/ebpf.oci.image.config.v1+json"
eBPFMediaType == "binary/ebpf.solo.io.v1"
ebpfFileName == "program.o"
configName == "config.json"

(***************************************************************************)
(* UTF-8, as encoding/json sees a Go string (unicode/utf8).                *)
(***************************************************************************)
\* the bytes of U+FFFD, the replacement rune
ReplacementBytes == <<239, 191, 189>>

\* unicode/utf8 first[]: the length of the sequence byte b0 starts
\* (1 for ASCII, 0 for a byte that cannot start a sequence)
Utf8Size(b0) ==
    IF b0 < 128 THEN 1
    ELSE IF b0 < 194 THEN 0
    ELSE IF b0 < 224 THEN 2
    ELSE IF b0 < 240 THEN 3
    ELSE IF b0 < 245 THEN 4
    ELSE 0

\* unicode/utf8 acceptRanges: the range allowed for the second byte
Utf8SecondLo(b0) == IF b0 = 224 THEN 160 ELSE IF b0 = 240 THEN 144 ELSE 128

Utf8SecondHi(b0) == IF b0 = 237 THEN 159 ELSE IF b0 = 244 THEN 143 ELSE 191

IsCont(b) == b >= 128 /\ b <= 191

\* utf8.DecodeRuneInString(s[i:]) for a byte b0 = s[i] that starts a
\* sequence of sz > 1 bytes: sz, or 0 when the bytes are not well formed
RuneLenMulti(s, i, b0, sz) ==
    IF i + sz - 1 > Len(s) THEN 0
    ELSE IF s[i + 1] < Utf8SecondLo(b0) \/ s[i + 1] > Utf8SecondHi(b0) THEN 0
    ELSE IF sz >= 3 /\ ~IsCont(s[i + 2]) THEN 0
    ELSE IF sz >= 4 /\ ~IsCont(s[i + 3]) THEN 0
    ELSE sz

\* utf8.DecodeRuneInString(s[i:]): the number of bytes of the rune at index
\* i, or 0 when the bytes at i are not a well-formed sequence (RuneError
\* with size 1 in Go)
RuneLen(s, i) ==
    IF Utf8Size(s[i]) <= 1 THEN Utf8Size(s[i])
    ELSE RuneLenMulti(s, i, s[i], Utf8Size(s[i]))

\* the code point of the well-formed sequence of n bytes at index i
RuneAt(s, i, n) ==
    IF n = 1 THEN s[i]
    ELSE IF n = 2 THEN (s[i] % 32) * 64 + (s[i + 1] % 64)
    ELSE IF n = 3 THEN (s[i] % 16) * 4096 + (s[i + 1] % 64) * 64 + (s[i + 2] % 64)
    ELSE (s[i] % 8) * 262144 + (s[i + 1] % 64) * 4096 + (s[i + 2] % 64) * 64
         + (s[i + 3] % 64)

\* utf8.EncodeRune
EncodeRune(r) ==
    IF r < 128 THEN <<r>>
    ELSE IF r < 2048 THEN <<192 + (r \div 64), 128 + (r % 64)>>
    ELSE IF (r >= 55296 /\ r <= 57343) \/ r > 1114111 THEN ReplacementBytes
    ELSE IF r < 65536
         THEN <<224 + (r \div 4096), 128 + ((r \div 64) % 64), 128 + (r % 64)>>
    ELSE <<240 + (r \div 262144), 128 + ((r \div 4096) % 64),
           128 + ((r \div 64) % 64), 128 + (r % 64)>>

Slice(s, from, to) == [k \in 1..(to - from + 1) |-> s[from + k - 1]]

(***************************************************************************)
(* json.Marshal(pkg.EbpfConfig) (spec.go line 59): the struct has the one  *)
(* field Info, tagged "info"; a string is written quoted, with HTML        *)
(* escaping on, and coerced to valid UTF-8.                                *)
(***************************************************************************)
HexDigit(d) == IF d < 10 THEN 48 + d ELSE 87 + d

\* the Go toolchains the package may be built with (go.mod is not part of
\* the source at hand): "go1.21" is any release before 1.22, "go1.22" is
\* 1.22 or later, whose encoding/json writes \b and \f for the bytes 8
\* and 12 where the earlier ones write \u0008 and \u000c
Toolchains == {"go1.21", "go1.22"}

\* encoding/json appendString: what one ASCII byte is written as by the
\* encoder of toolchain tc
EscapeAscii(b, tc) ==
    IF b = 34 \/ b = 92 THEN <<92, b>>
    ELSE IF b = 8 /\ tc = "go1.22" THEN <<92, 98>>
    ELSE IF b = 12 /\ tc = "go1.22" THEN <<92, 102>>
    ELSE IF b = 10 THEN <<92, 110>>
    ELSE IF b = 13 THEN <<92, 114>>
    ELSE IF b = 9 THEN <<92, 116>>
    ELSE IF b < 32 \/ b = 60 \/ b = 62 \/ b = 38
         THEN <<92, 117, 48, 48, HexDigit(b \div 16), HexDigit(b % 16)>>
    ELSE <<b>>

\* encoding/json appendString: what the bytes at index i, which are not
\* ASCII, are written as; n is RuneLen(s, i).  An invalid byte becomes the
\* escape of U+FFFD; U+2028 and U+2029 are escaped; the rest is copied
EscapeRune(s, i, n) ==
    IF n = 0 THEN <<92, 117, 102, 102, 102, 100>>
    ELSE IF n = 3 /\ RuneAt(s, i, 3) \in {8232, 8233}
         THEN <<92, 117, 50, 48, 50, HexDigit(RuneAt(s, i, 3) % 16)>>
    ELSE Slice(s, i, i + n - 1)

\* the number of bytes of s the rune at index i takes (n is RuneLen(s, i))
Advance(n) == IF n = 0 THEN 1 ELSE n

RECURSIVE QuoteFrom(_, _, _)
\* encoding/json appendString, from index i on, without the quotes
QuoteFrom(s, i, tc) ==
    IF i > Len(s) THEN <<>>
    ELSE IF s[i] < 128 THEN EscapeAscii(s[i], tc) \o QuoteFrom(s, i + 1, tc)
    ELSE EscapeRune(s, i, RuneLen(s, i))
         \o QuoteFrom(s, i + Advance(RuneLen(s, i)), tc)

\* json.Marshal of an EbpfConfig, built with toolchain tc: {"info":"..."}
Marshal(cfg, tc) ==
    <<123, 34, 105, 110, 102, 111, 34, 58, 34>> \o QuoteFrom(cfg.Info, 1, tc)
    \o <<34, 125>>

\* the two encoders write the config of Info s differently
EncodersDiffer(s) ==
    Marshal([Info |-> s], "go1.21") # Marshal([Info |-> s], "go1.22")

(***************************************************************************)
(* json.Unmarshal(configBytes, &cfg) (spec.go line 103): the input is      *)
(* first scanned as one JSON value (checkValid), then decoded into an      *)
(* EbpfConfig, whose only field is Info, matched by the key "info"         *)
(* ignoring case.                                                          *)
(***************************************************************************)
At(s, i) == IF i >= 1 /\ i <= Len(s) THEN s[i] ELSE -1

IsDigit(b) == b >= 48 /\ b <= 57

RECURSIVE SkipWS(_, _)
\* the index of the first byte at or after i that is not JSON white space
SkipWS(s, i) == IF At(s, i) \in {32, 9, 13, 10} THEN SkipWS(s, i + 1) ELSE i

RECURSIVE SkipDigits(_, _)
SkipDigits(s, i) == IF IsDigit(At(s, i)) THEN SkipDigits(s, i + 1) ELSE i

HexVal(b) ==
    IF b >= 48 /\ b <= 57 THEN b - 48
    ELSE IF b >= 97 /\ b <= 102 THEN b - 87
    ELSE IF b >= 65 /\ b <= 70 THEN b - 55
    ELSE -1

\* encoding/json getu4, on the four bytes that follow a backslash-u:
\* their value, or -1 when they are not four hex digits
U4(s, i) ==
    IF \E k \in 0..3 : HexVal(At(s, i + k)) < 0 THEN -1
    ELSE HexVal(s[i]) * 4096 + HexVal(s[i + 1]) * 256 + HexVal(s[i + 2]) * 16
         + HexVal(s[i + 3])

\* the outcome for the field Info of decoding an object: whether a string
\* was assigned, its value, and whether a value of another type was met
NoInfo == [set |-> FALSE, val |-> <<>>, terr |-> FALSE]

\* a value that failed to scan
Fail == [ok |-> FALSE, pos |-> 0, kind |-> "", str |-> <<>>, info |-> NoInfo]

\* a scanned value of kind k that ends before index p
Scanned(p, k) == [ok |-> TRUE, pos |-> p, kind |-> k, str |-> <<>>, info |-> NoInfo]

\* what the single-character escape e stands for, or -1
SimpleEscape(e) ==
    IF e \in {34, 92, 47} THEN e
    ELSE IF e = 98 THEN 8
    ELSE IF e = 102 THEN 12
    ELSE IF e = 110 THEN 10
    ELSE IF e = 114 THEN 13
    ELSE IF e = 116 THEN 9
    ELSE -1

RECURSIVE StrBody(_, _, _)
\* unquote, a backslash-u escape at index i of value u; u2 is the value of
\* the escape that follows it, or -1.  A surrogate pair is one rune, a
\* lone surrogate the replacement rune
StrUnicode(s, i, acc, u, u2) ==
    IF u < 0 THEN Fail
    ELSE IF u >= 55296 /\ u <= 56319 /\ u2 >= 56320 /\ u2 <= 57343
         THEN StrBody(s, i + 12,
                      acc \o EncodeRune((u - 55296) * 1024 + (u2 - 56320) + 65536))
    ELSE StrBody(s, i + 6, acc \o EncodeRune(u))

\* unquote, a backslash at index i followed by the byte e
StrEscape(s, i, acc, e) ==
    IF e = 117
    THEN StrUnicode(s, i, acc, U4(s, i + 2),
                    IF At(s, i + 6) = 92 /\ At(s, i + 7) = 117 THEN U4(s, i + 8) ELSE -1)
    ELSE IF SimpleEscape(e) < 0 THEN Fail
    ELSE StrBody(s, i + 2, acc \o <<SimpleEscape(e)>>)

\* unquote, the bytes at index i that are not ASCII; n is RuneLen(s, i)
StrRune(s, i, acc, n) ==
    IF n = 0 THEN StrBody(s, i + 1, acc \o ReplacementBytes)
    ELSE StrBody(s, i + n, acc \o Slice(s, i, i + n - 1))

\* the scanner's string states and unquote at the byte c = s[i] (-1: none)
StrByte(s, i, acc, c) ==
    IF c < 0 THEN Fail
    ELSE IF c = 34
         THEN [ok |-> TRUE, pos |-> i + 1, kind |-> "string", str |-> acc,
               info |-> NoInfo]
    ELSE IF c = 92 THEN StrEscape(s, i, acc, At(s, i + 1))
    ELSE IF c < 32 THEN Fail
    ELSE IF c < 128 THEN StrBody(s, i + 1, acc \o <<c>>)
    ELSE StrRune(s, i, acc, RuneLen(s, i))

\* the scanner's string states and encoding/json unquote: the string
\* literal whose opening quote is just before index i, decoded after acc
StrBody(s, i, acc) == StrByte(s, i, acc, At(s, i))

\* the scanner's number states, the digits of the exponent at index k
NumExpDigits(s, k) == IF IsDigit(At(s, k)) THEN SkipDigits(s, k) ELSE 0

\* the scanner's number states, after the fraction: an optional exponent
NumExp(s, j) ==
    IF At(s, j) \in {101, 69}
    THEN NumExpDigits(s, IF At(s, j + 1) \in {43, 45} THEN j + 2 ELSE j + 1)
    ELSE j

\* the scanner's number states, after the integer part: an optional fraction
NumFrac(s, j) ==
    IF At(s, j) # 46 THEN NumExp(s, j)
    ELSE IF IsDigit(At(s, j + 1)) THEN NumExp(s, SkipDigits(s, j + 1))
    ELSE 0

\* the scanner's number states, the integer part at index j
NumInt(s, j) ==
    IF At(s, j) = 48 THEN NumFrac(s, j + 1)
    ELSE IF IsDigit(At(s, j)) THEN NumFrac(s, SkipDigits(s, j))
    ELSE 0

\* the scanner's number states: the index after the number at i, or 0
NumberEnd(s, i) == NumInt(s, IF At(s, i) = 45 THEN i + 1 ELSE i)

\* a number that ends before index p, or no number when p is 0
ScannedNumber(p) == IF p = 0 THEN Fail ELSE Scanned(p, "number")

MatchAt(s, i, lit) == \A k \in 1..Len(lit) : At(s, i + k - 1) = lit[k]

Lower(b) == IF b >= 65 /\ b <= 90 THEN b + 32 ELSE b

\* the decoder's field lookup: the key names Info when it equals "info"
\* ignoring ASCII case
FieldMatch(key) ==
    /\ Len(key) = 4
    /\ \A k \in 1..4 : Lower(key[k]) = <<105, 110, 102, 111>>[k]

\* decoding the scanned value v into the string field Info
SetInfo(acc, v) ==
    IF v.kind = "string" THEN [acc EXCEPT !.set = TRUE, !.val = v.str]
    ELSE IF v.kind = "null" THEN acc
    ELSE [acc EXCEPT !.terr = TRUE]

RECURSIVE ParseValue(_, _)
RECURSIVE Members(_, _, _)
RECURSIVE Elements(_, _)
\* an object after a member, at index e: a comma and the next member, or
\* the closing brace; acc is what the members so far made of Info
MembersNext(s, e, acc) ==
    IF At(s, e) = 44 THEN Members(s, SkipWS(s, e + 1), acc)
    ELSE IF At(s, e) = 125
         THEN [ok |-> TRUE, pos |-> e + 1, kind |-> "object", str |-> <<>>,
               info |-> acc]
    ELSE Fail

\* an object member whose key and value v are scanned: it is decoded into
\* Info when the key names it
MembersValue(s, key, v, acc) ==
    IF ~v.ok THEN Fail
    ELSE MembersNext(s, SkipWS(s, v.pos),
                     IF FieldMatch(key.str) THEN SetInfo(acc, v) ELSE acc)

\* an object member whose key is scanned: a colon at index c and a value
MembersColon(s, key, c, acc) ==
    IF At(s, c) # 58 THEN Fail
    ELSE MembersValue(s, key, ParseValue(s, SkipWS(s, c + 1)), acc)

\* an object member whose key is scanned
MembersKey(s, key, acc) ==
    IF ~key.ok THEN Fail ELSE MembersColon(s, key, SkipWS(s, key.pos), acc)

\* the members of an object from the key at index j on; acc is what the
\* members before it made of Info
Members(s, j, acc) ==
    IF At(s, j) # 34 THEN Fail ELSE MembersKey(s, StrBody(s, j + 1, <<>>), acc)

\* an array after an element, at index e: a comma and the next element, or
\* the closing bracket
ElementsNext(s, e) ==
    IF At(s, e) = 44 THEN Elements(s, SkipWS(s, e + 1))
    ELSE IF At(s, e) = 93 THEN Scanned(e + 1, "array")
    ELSE Fail

\* an array whose element v is scanned
ElementsValue(s, v) == IF ~v.ok THEN Fail ELSE ElementsNext(s, SkipWS(s, v.pos))

\* the elements of an array from index j on
Elements(s, j) == ElementsValue(s, ParseValue(s, j))

\* an object whose opening brace is scanned, at index j
ObjectAt(s, j) ==
    IF At(s, j) = 125 THEN Scanned(j + 1, "object") ELSE Members(s, j, NoInfo)

\* an array whose opening bracket is scanned, at index j
ArrayAt(s, j) == IF At(s, j) = 93 THEN Scanned(j + 1, "array") ELSE Elements(s, j)

\* the JSON value that starts at index i (white space already skipped)
ParseValue(s, i) ==
    IF At(s, i) = 34 THEN StrBody(s, i + 1, <<>>)
    ELSE IF At(s, i) = 123 THEN ObjectAt(s, SkipWS(s, i + 1))
    ELSE IF At(s, i) = 91 THEN ArrayAt(s, SkipWS(s, i + 1))
    ELSE IF MatchAt(s, i, <<116, 114, 117, 101>>) THEN Scanned(i + 4, "true")
    ELSE IF MatchAt(s, i, <<102, 97, 108, 115, 101>>) THEN Scanned(i + 5, "false")
    ELSE IF MatchAt(s, i, <<110, 117, 108, 108>>) THEN Scanned(i + 4, "null")
    ELSE IF At(s, i) = 45 \/ IsDigit(At(s, i)) THEN ScannedNumber(NumberEnd(s, i))
    ELSE Fail

\* the zero EbpfConfig (var cfg EbpfConfig, line 102)
ZeroConfig == [Info |-> <<>>]

\* json.Unmarshal, the input scanned as the value v: an error when it is
\* no JSON value or more follows it; null leaves the config as it is; an
\* object is decoded field by field; any other value is a type error
Decode(data, v) ==
    IF ~v.ok \/ SkipWS(data, v.pos) <= Len(data)
    THEN [err |-> TRUE, cfg |-> ZeroConfig]
    ELSE IF v.kind = "null" THEN [err |-> FALSE, cfg |-> ZeroConfig]
    ELSE IF v.kind = "object"
         THEN [err |-> v.info.terr,
               cfg |-> [Info |-> IF v.info.set THEN v.info.val ELSE <<>>]]
    ELSE [err |-> TRUE, cfg |-> ZeroConfig]

\* json.Unmarshal into a zero EbpfConfig: err is whether an error is
\* returned, cfg the config as it is left
Unmarshal(data) == Decode(data, ParseValue(data, SkipWS(data, 1)))

(***************************************************************************)
(* Descriptors and the in-memory content store (content.NewMemory), as     *)
(* Push and Pull use them.                                                 *)
(***************************************************************************)
\* digest.FromBytes: a content digest, collision-free
Digest(byt) == [alg |-> "sha256", of |-> byt]

\* an ocispec.Descriptor; Title is its org.opencontainers.image.title
\* annotation ("" when it has none)
Descriptor(mediaType, byt, title) ==
    [MediaType |-> mediaType, Digest |-> Digest(byt), Size |-> Len(byt),
     Title |-> title]

\* buildConfigDescriptor(byt, nil): the config descriptor, titled config.json
buildConfigDescriptor(byt) == Descriptor(configMediaType, byt, configName)

\* content.NewMemory(): an empty store
NewMemory == [content |-> <<>>, nameMap |-> <<>>, refMap |-> <<>>]

\* Set in a store that keeps one name per digest
MemSetOneNamePerDigest(st, desc, byt) ==
    [st EXCEPT !.content = (desc.Digest :> byt) @@ @,
               !.nameMap = IF desc.Title # ""
                           THEN (desc.Title :> desc)
                                @@ [n \in {n \in DOMAIN @ : @[n].Digest # desc.Digest}
                                      |-> @[n]]
                           ELSE @]

\* Memory.Set(desc, content): the content by digest, the descriptor by name
MemSet(st, desc, byt) ==
    [st EXCEPT !.content = (desc.Digest :> byt) @@ @,
               !.nameMap = IF desc.Title # "" THEN (desc.Title :> desc) @@ @ ELSE @]

\* Memory.Add(name, mediaType, content): the descriptor it generates
AddDesc(name, mediaType, byt) == Descriptor(mediaType, byt, name)

\* Add that does nothing for empty content
MemAddSkipEmpty(st, name, mediaType, byt) ==
    IF byt = <<>> THEN st ELSE MemSet(st, AddDesc(name, mediaType, byt), byt)

\* Memory.Add(name, mediaType, content): the store after it
MemAdd(st, name, mediaType, byt) == MemSet(st, AddDesc(name, mediaType, byt), byt)

\* GetByName that reports a missing name as found, with no content
GetByNameAlwaysOk(st, name) ==
    IF name \notin DOMAIN st.nameMap THEN [ok |-> TRUE, byt |-> <<>>]
    ELSE [ok |-> TRUE, byt |-> st.content[st.nameMap[name].Digest]]

\* Memory.GetByName(name)
GetByName(st, name) ==
    IF name \notin DOMAIN st.nameMap THEN [ok |-> FALSE, byt |-> <<>>]
    ELSE IF st.nameMap[name].Digest \notin DOMAIN st.content
         THEN [ok |-> FALSE, byt |-> <<>>]
    ELSE [ok |-> TRUE, byt |-> st.content[st.nameMap[name].Digest]]

\* content.GenerateManifest(&configDesc, nil, progDesc): the manifest
GenerateManifest(configDesc, layerDescs) == [Config |-> configDesc, Layers |-> layerDescs]

\* the manifest's descriptor: its media type and digest
ManifestDesc(manifest) ==
    [MediaType |-> "application/vnd.oci.image.manifest.v1+json",
     Digest |-> [alg |-> "sha256", of |-> manifest]]

\* Memory.StoreManifest(ref, manifestDesc, manifest)
StoreManifest(st, ref, manifest) ==
    [st EXCEPT !.refMap = (ref :> ManifestDesc(manifest)) @@ @]

\* the descriptors a copy transfers below a manifest: its config and layers
Children(manifest) ==
    {manifest.Config} \cup {manifest.Layers[k] : k \in 1..Len(manifest.Layers)}

(***************************************************************************)
(* Errors ("" is nil).                                                     *)
(***************************************************************************)
ErrLookup == "could not find ebpf bytes in manifest"

\* the error Push surfaces when the library call named by fault fails
FaultErr(fault) == IF fault = "none" THEN "" ELSE "error from " \o fault

LocalFaults == {"Add", "GenerateManifest", "StoreManifest"}

\* what a Push is started with: no failing call before the copy, or one
Faults == {"none"} \cup LocalFaults

(***************************************************************************)
(* Push, lines 52-79: everything before the registry copy.  fault names    *)
(* the library call that fails in this invocation, if any.                 *)
(***************************************************************************)
\* lines 52-69: the memory store with the program added under program.o
\* and the encoded config set under its descriptor
StageStore(pkg, configByt) ==
    MemSet(MemAdd(NewMemory, ebpfFileName, eBPFMediaType, pkg.ProgramFileBytes),
           buildConfigDescriptor(configByt), configByt)

\* line 71: the manifest, the config descriptor as its config and the
\* program descriptor as its only layer
StageManifest(pkg, configByt) ==
    GenerateManifest(buildConfigDescriptor(configByt),
                     <<AddDesc(ebpfFileName, eBPFMediaType, pkg.ProgramFileBytes)>>)

\* the error checks without the one after StoreManifest
StagedIgnoreStoreErr(ref, fault, store, manifest) ==
    IF fault = "Add"
    THEN [err |-> FaultErr(fault), store |-> NewMemory, manifest |-> <<>>]
    ELSE IF fault = "GenerateManifest"
         THEN [err |-> FaultErr(fault), store |-> store, manifest |-> <<>>]
    ELSE [err |-> "", store |-> StoreManifest(store, ref, manifest),
          manifest |-> <<manifest>>]

\* lines 54-79, the error checks: Push returns at the first call that fails
Staged(ref, fault, store, manifest) ==
    IF fault = "Add"
    THEN [err |-> FaultErr(fault), store |-> NewMemory, manifest |-> <<>>]
    ELSE IF fault = "GenerateManifest"
         THEN [err |-> FaultErr(fault), store |-> store, manifest |-> <<>>]
    ELSE IF fault = "StoreManifest"
         THEN [err |-> FaultErr(fault), store |-> store, manifest |-> <<>>]
    ELSE [err |-> "", store |-> StoreManifest(store, ref, manifest),
          manifest |-> <<manifest>>]

\* lines 52-79
Stage(ref, pkg, fault, tc) ==
    Staged(ref, fault, StageStore(pkg, Marshal([Info |-> pkg.Info], tc)),
           StageManifest(pkg, Marshal([Info |-> pkg.Info], tc)))

(***************************************************************************)
(* Pull, lines 92-110: the package assembled from the store the copy       *)
(* filled.  nil is whether the returned package pointer is nil.            *)
(***************************************************************************)
NilPackage == [ProgramFileBytes |-> <<>>, Info |-> <<>>]

\* Pull without the check of the decoder's error
AssembledIgnoreDecodeErr(prog, conf, dec) ==
    IF ~prog.ok THEN [err |-> ErrLookup, nil |-> TRUE, pkg |-> NilPackage]
    ELSE IF ~conf.ok THEN [err |-> ErrLookup, nil |-> TRUE, pkg |-> NilPackage]
    ELSE [err |-> "", nil |-> FALSE,
          pkg |-> [ProgramFileBytes |-> prog.byt, Info |-> dec.cfg.Info]]

\* lines 92-110, given the two lookups and the decoded config
Assembled(prog, conf, dec) ==
    IF ~prog.ok THEN [err |-> ErrLookup, nil |-> TRUE, pkg |-> NilPackage]
    ELSE IF ~conf.ok THEN [err |-> ErrLookup, nil |-> TRUE, pkg |-> NilPackage]
    ELSE IF dec.err THEN [err |-> "json: decode error", nil |-> TRUE, pkg |-> NilPackage]
    ELSE [err |-> "", nil |-> FALSE,
          pkg |-> [ProgramFileBytes |-> prog.byt, Info |-> dec.cfg.Info]]

\* lines 92-110
Assemble(st) ==
    Assembled(GetByName(st, ebpfFileName), GetByName(st, configName),
              Unmarshal(GetByName(st, configName).byt))

(***************************************************************************)
(* The inputs callers draw from.                                           *)
(***************************************************************************)
Refs == {"r1", "r2"}

\* the reference the calls of the sequential specification use
SeqRefs == {"r1"}

\* the goroutines that call Push and Pull on the one ebpfResgistry
Calls == {1, 2}

\* bytes an Info string is made of: a backspace (escaped in JSON, in a way
\* that depends on the toolchain) and 0xFF (never valid in UTF-8)
InfoBytes == {8, 255}

Infos == UNION {[1..n -> InfoBytes] : n \in 0..MaxInfoLen}

\* program bytes: none, and bytes equal to the JSON encoding of the config
\* whose Info is empty (the same with either toolchain)
Programs == {<<>>, Marshal([Info |-> <<>>], "go1.22")}

\* the packages pushed: every Info without program bytes, and the empty
\* Info with each of the program bytes
Packages ==
    [ProgramFileBytes : {<<>>}, Info : Infos]
    \cup [ProgramFileBytes : Programs, Info : {<<>>}]

\* the two packages concurrent callers push
RacePackages ==
    {[ProgramFileBytes |-> <<>>, Info |-> <<34>>],
     [ProgramFileBytes |-> <<127, 69, 76, 70>>, Info |-> <<255>>]}

\* artifacts other clients of the registry put at a reference: a config
\* blob, whether its descriptor is titled config.json, and whether there
\* is a layer titled program.o
ForeignArtifacts ==
    [config : {<<110, 117, 108, 108>>,
               <<123, 34, 73, 110, 102, 111, 34, 58, 34, 97, 34, 125>>,
               <<123, 34, 105, 110, 102, 111, 34, 58, 49, 125>>,
               <<123, 34, 105, 110, 102, 111, 34, 58, 34, 97, 34>>},
     titled : {TRUE}, program : {TRUE}]
    \cup {[config |-> <<123, 125>>, titled |-> FALSE, program |-> TRUE],
          [config |-> <<123, 125>>, titled |-> TRUE, program |-> FALSE]}

\* the manifest of a foreign artifact
ForeignManifest(art) ==
    GenerateManifest(
        Descriptor(IF art.titled THEN configMediaType
                   ELSE "application/vnd.oci.image.config.v1+json",
                   art.config, IF art.titled THEN configName ELSE ""),
        IF art.program THEN <<Descriptor(eBPFMediaType, <<1>>, ebpfFileName)>>
        ELSE <<Descriptor("text/plain", <<1>>, "readme.txt")>>)

(***************************************************************************)
(* State.                                                                  *)
(***************************************************************************)
VARIABLES
    call,          \* per caller: the Push or Pull call it is in
    tags,          \* registry: reference -> manifest descriptor (<<>>: none)
    regManifests,  \* registry: the manifests stored, found by digest
    regBlobs,      \* registry: the blobs stored, found by digest
    hist,          \* per reference: what the calls on it have done so far
    pushes,        \* number of Push and foreign-client calls started
    toolchain      \* the toolchain of the build, as far as a Push has shown
                   \* it: "unobserved" until a config is encoded that the
                   \* two encoders write differently

vars == <<call, tags, regManifests, regBlobs, hist, pushes, toolchain>>

NoWriter == [kind |-> "none", pkg |-> NilPackage]

IdleCall ==
    [op |-> "idle", pc |-> "idle", ref |-> "r1", pkg |-> NilPackage,
     fault |-> "none", store |-> NewMemory, root |-> <<>>, manifest |-> <<>>,
     todo |-> {}, err |-> "", res |-> NilPackage, resNil |-> TRUE,
     \* history of the call, for stating the properties
     ovl |-> FALSE, taint |-> FALSE, touched |-> FALSE, wrote |-> FALSE,
     exp1 |-> <<>>, exp2 |-> <<>>, exp2over |-> FALSE, exp7 |-> <<>>,
     exp7diff |-> FALSE, src |-> NoWriter,
     during |-> {}, quiet |-> FALSE]

NoHist ==
    [lastWriter |-> NoWriter, solo |-> <<>>, seqClean |-> TRUE, lastRet |-> <<>>,
     overwrote |-> FALSE, firstOfPair |-> <<>>, race |-> FALSE, raceDiff |-> FALSE,
     seen |-> {}, again |-> FALSE, pullWrote |-> FALSE]

Init ==
    /\ call = [c \in Calls |-> IdleCall]
    /\ tags = [r \in Refs |-> <<>>]
    /\ regManifests = {}
    /\ regBlobs = {}
    /\ hist = [r \in Refs |-> NoHist]
    /\ pushes = 0
    /\ toolchain = "unobserved"

InFlight(c) == call[c].pc \notin {"idle", "done"}

PushOn(c, r) == call[c].op = "push" /\ InFlight(c) /\ call[c].ref = r

PullOn(c, r) == call[c].op = "pull" /\ InFlight(c) /\ call[c].ref = r

\* no call is in progress
AllQuiet == \A c \in Calls : ~InFlight(c)

(***************************************************************************)
(* The registry, as oras.Copy reads and writes it.                         *)
(***************************************************************************)
\* a tag write that keeps a tag that exists
StoreTagFirstWins(t, ref, desc) ==
    IF t[ref] = <<>> THEN [t EXCEPT ![ref] = <<desc>>] ELSE t

\* a tag write that moves every tag
StoreTagAllRefs(t, ref, desc) == [r \in DOMAIN t |-> <<desc>>]

\* pushing the root manifest under ref: the tag now names it
StoreTag(t, ref, desc) == [t EXCEPT ![ref] = <<desc>>]

\* the blob of the entry titled like d among the descriptors ds, or d's own
BlobTitledLike(ds, d) ==
    IF \E x \in ds : x.Title = d.Title
    THEN (CHOOSE x \in ds : x.Title = d.Title).Digest.of
    ELSE d.Digest.of

\* a fetch by title in whatever manifest ref names at the moment
FetchByTagNow(ref, d) ==
    BlobTitledLike(Children(CHOOSE m \in regManifests : ManifestDesc(m) = tags[ref][1]), d)

\* fetcher.Fetch(ctx, desc) on the registry: the blob with desc's digest
RegistryFetch(ref, d) == CHOOSE b \in regBlobs : Digest(b) = d.Digest

\* what Pull's copy, whose source is the registry, leaves of the tags
TagsAfterPullRetag(t, ref) ==
    IF t[ref] # <<>> /\ \E m \in regManifests : ManifestDesc(m) # t[ref][1]
    THEN [t EXCEPT ![ref] = <<ManifestDesc(CHOOSE m \in regManifests :
                                             ManifestDesc(m) # t[ref][1])>>]
    ELSE t

TagsAfterPull(t, ref) == t

(***************************************************************************)
(* History of a reference.                                                 *)
(***************************************************************************)
\* a Push on the reference starts; ovl: another Push on it is in progress
HistStart(h, ovl) ==
    [h EXCEPT !.solo = <<>>, !.race = FALSE, !.raceDiff = FALSE, !.seen = {},
              !.again = FALSE, !.firstOfPair = <<>>, !.seqClean = @ /\ ~ovl]

\* a Push on the reference returns an error
HistFail(h) == [h EXCEPT !.seqClean = FALSE, !.firstOfPair = <<>>]

\* Push call k of package pkg returns nil; other: another Push on the
\* reference is still in progress
HistOk(h, k, other) ==
    [h EXCEPT
       !.solo = IF k.ovl THEN <<>> ELSE <<k.pkg>>,
       !.lastRet = <<k.pkg>>,
       !.overwrote = @ \/ (h.lastRet # <<>> /\ h.lastRet # <<k.pkg>>),
       !.firstOfPair = IF k.ovl /\ ~k.taint /\ other THEN <<k.pkg>> ELSE <<>>,
       !.race = k.ovl /\ ~k.taint /\ ~other /\ h.firstOfPair # <<>>,
       !.raceDiff = k.ovl /\ ~k.taint /\ ~other /\ h.firstOfPair # <<>>
                    /\ h.firstOfPair # <<k.pkg>>]

(***************************************************************************)
(* Push (lines 50-83).                                                     *)
(***************************************************************************)
\* lines 50-79: caller c enters Push(ref, pkg) and the package is staged as
\* st; on an error Push returns it, otherwise the copy of line 81 begins.
\* ovl: another Push on the reference is in progress
PushStaged(c, r, pkg, fault, st, ovl) ==
    /\ ~InFlight(c)
    /\ pushes < MaxPushes
    /\ pushes' = pushes + 1
    /\ call' = [x \in Calls |->
          IF x = c
          THEN [IdleCall EXCEPT
                  !.op = "push", !.pc = IF st.err = "" THEN "blobs" ELSE "done",
                  !.ref = r, !.pkg = pkg, !.fault = fault, !.store = st.store,
                  !.root = IF st.err = "" THEN <<st.store.refMap[r]>> ELSE <<>>,
                  !.manifest = st.manifest,
                  !.todo = IF st.err = "" THEN Children(st.manifest[1]) ELSE {},
                  !.err = st.err, !.ovl = ovl]
          ELSE IF PushOn(x, r) THEN [call[x] EXCEPT !.ovl = TRUE]
          ELSE IF PullOn(x, r) THEN [call[x] EXCEPT !.quiet = FALSE]
          ELSE call[x]]
    /\ hist' = [hist EXCEPT ![r] = IF st.err = "" THEN HistStart(@, ovl)
                                   ELSE HistFail(HistStart(@, ovl))]
    /\ UNCHANGED <<tags, regManifests, regBlobs>>

\* the toolchains whose encoder may encode the config of Info s now: the
\* one the build has shown to have, or any; one stands for both when they
\* write s alike
Encoders(s) ==
    IF ~EncodersDiffer(s) THEN {"go1.21"}
    ELSE IF toolchain = "unobserved" THEN Toolchains
    ELSE {toolchain}

\* lines 50-79, in a build with toolchain tc
PushStageWith(c, r, pkg, fault, tc) ==
    /\ PushStaged(c, r, pkg, fault, Stage(r, pkg, fault, tc),
                  \E x \in Calls \ {c} : PushOn(x, r))
    /\ toolchain' = IF fault # "Add" /\ EncodersDiffer(pkg.Info) THEN tc
                    ELSE toolchain

\* lines 50-79
PushStage(c, r, pkg, fault) ==
    \E tc \in Encoders(pkg.Info) : PushStageWith(c, r, pkg, fault, tc)

\* line 81, oras.Copy: one blob of the staged package is fetched from the
\* memory store and pushed to the registry
PushBlob(c) ==
    /\ call[c].op = "push" /\ call[c].pc = "blobs"
    /\ \E d \in call[c].todo :
         IF d.Digest \in DOMAIN call[c].store.content
         THEN /\ regBlobs' = regBlobs \cup {call[c].store.content[d.Digest]}
              /\ call' = [call EXCEPT ![c].todo = @ \ {d}, ![c].touched = TRUE]
              /\ UNCHANGED hist
         ELSE /\ call' = [call EXCEPT ![c].pc = "done", ![c].err = FaultErr("Copy")]
              /\ hist' = [hist EXCEPT ![call[c].ref] = HistFail(@)]
              /\ UNCHANGED regBlobs
    /\ UNCHANGED <<tags, regManifests, pushes, toolchain>>

\* lines 81-82: oras.Copy returns an error (network, auth, remote
\* rejection, cancelled context) and Push returns it.  The error may arise
\* at any point of the copy: before anything is uploaded, after some blobs,
\* or after the registry has taken the manifest and moved the tag
PushCopyFail(c) ==
    /\ call[c].op = "push" /\ call[c].pc \in {"blobs", "pushed"}
    /\ call' = [call EXCEPT ![c] =
                  [IdleCall EXCEPT !.op = "push", !.pc = "done",
                                   !.ref = call[c].ref, !.fault = "Copy",
                                   !.err = FaultErr("Copy"),
                                   !.touched = call[c].touched,
                                   !.wrote = call[c].wrote]]
    /\ hist' = [hist EXCEPT ![call[c].ref] = HistFail(@)]
    /\ UNCHANGED <<tags, regManifests, regBlobs, pushes, toolchain>>

\* line 81, oras.Copy: the blobs are in the registry, the manifest is
\* pushed under ref
PushManifest(c) ==
    LET r == call[c].ref
    IN  /\ call[c].op = "push" /\ call[c].pc = "blobs"
        /\ call[c].todo = {}
        /\ regManifests' = regManifests \cup {call[c].manifest[1]}
        /\ tags' = StoreTag(tags, r, call[c].root[1])
        /\ call' = [x \in Calls |->
              IF x = c THEN [call[x] EXCEPT !.pc = "pushed", !.touched = TRUE,
                                            !.wrote = TRUE]
              ELSE IF PullOn(x, r) THEN [call[x] EXCEPT !.during = @ \cup {call[c].pkg}]
              ELSE call[x]]
        /\ hist' = [hist EXCEPT ![r].lastWriter = [kind |-> "push", pkg |-> call[c].pkg],
                                ![r].seen = {}, ![r].again = FALSE]
        /\ UNCHANGED <<regBlobs, pushes, toolchain>>

\* lines 81-82: oras.Copy returned nil, and so does Push
PushReturn(c) ==
    LET r == call[c].ref
    IN  /\ call[c].op = "push" /\ call[c].pc = "pushed"
        /\ call' = [call EXCEPT ![c].pc = "done", ![c].err = ""]
        /\ hist' = [hist EXCEPT ![r] =
                      HistOk(@, call[c], \E x \in Calls \ {c} : PushOn(x, r))]
        /\ UNCHANGED <<tags, regManifests, regBlobs, pushes, toolchain>>

(***************************************************************************)
(* Pull (lines 85-111).                                                    *)
(***************************************************************************)
\* lines 85-90: caller c enters Pull(ref); oras.Copy resolves ref in the
\* registry, and fails when the registry has no such reference
PullResolve(c, r) ==
    /\ ~InFlight(c)
    /\ tags' = TagsAfterPull(tags, r)
    /\ call' = [call EXCEPT ![c] =
          IF tags[r] = <<>>
          THEN [IdleCall EXCEPT !.op = "pull", !.pc = "done", !.ref = r,
                                !.err = "not found"]
          ELSE [IdleCall EXCEPT
                  !.op = "pull", !.pc = "manifest", !.ref = r, !.root = tags[r],
                  !.exp1 = hist[r].solo,
                  !.exp2 = IF hist[r].seqClean /\ ~\E x \in Calls : PushOn(x, r)
                           THEN hist[r].lastRet ELSE <<>>,
                  !.exp2over = hist[r].overwrote,
                  !.exp7 = IF hist[r].race THEN <<hist[r].lastWriter.pkg>> ELSE <<>>,
                  !.exp7diff = hist[r].raceDiff,
                  !.src = hist[r].lastWriter,
                  !.quiet = ~\E x \in Calls : PushOn(x, r)]]
    /\ hist' = [hist EXCEPT ![r].pullWrote = @ \/ tags' # tags]
    /\ UNCHANGED <<regManifests, regBlobs, pushes, toolchain>>

\* a fetch that takes any manifest of the registry
RegistryManifestAny(desc) == CHOOSE m \in regManifests : TRUE

\* Fetch of the root manifest on the registry: the manifest with the
\* digest of desc
RegistryManifest(desc) == CHOOSE m \in regManifests : ManifestDesc(m) = desc

\* line 87, oras.Copy: the root manifest is fetched by its digest
PullManifest(c) ==
    /\ call[c].op = "pull" /\ call[c].pc = "manifest"
    /\ call' = [call EXCEPT ![c].pc = "blobs",
                            ![c].manifest = <<RegistryManifest(call[c].root[1])>>,
                            ![c].todo = Children(RegistryManifest(call[c].root[1]))]
    /\ UNCHANGED <<tags, regManifests, regBlobs, hist, pushes, toolchain>>

\* line 87, oras.Copy: one blob of the manifest is fetched from the
\* registry and committed to the memory store under its descriptor
PullBlob(c) ==
    /\ call[c].op = "pull" /\ call[c].pc = "blobs"
    /\ \E d \in call[c].todo :
         call' = [call EXCEPT ![c].todo = @ \ {d},
                              ![c].store = MemSet(@, d, RegistryFetch(call[c].ref, d))]
    /\ UNCHANGED <<tags, regManifests, regBlobs, hist, pushes, toolchain>>

\* lines 87-90: oras.Copy fails at some point (cancelled context, network,
\* auth, a blob that cannot be fetched) and Pull returns nil and the
\* error; the memory store of the call is dropped
PullCopyFail(c) ==
    /\ call[c].op = "pull" /\ call[c].pc \in {"manifest", "blobs"}
    /\ call' = [call EXCEPT ![c] =
                  [IdleCall EXCEPT !.op = "pull", !.pc = "done",
                                   !.ref = call[c].ref, !.fault = "Copy",
                                   !.err = FaultErr("Copy")]]
    /\ UNCHANGED <<tags, regManifests, regBlobs, hist, pushes, toolchain>>

\* lines 92-110: the copy is done; the two entries are looked up by name,
\* the config is decoded and Pull returns a
PullAssembled(c, r, a) ==
    /\ call[c].op = "pull" /\ call[c].pc = "blobs"
    /\ call[c].todo = {}
    /\ call' = [call EXCEPT ![c].pc = "done", ![c].err = a.err,
                            ![c].res = a.pkg, ![c].resNil = a.nil]
    /\ hist' = [hist EXCEPT
                  ![r].seen = IF a.err = "" /\ call[c].quiet THEN @ \cup {a.pkg} ELSE @,
                  ![r].again = @ \/ (a.err = "" /\ call[c].quiet /\ hist[r].seen # {})]
    /\ UNCHANGED <<tags, regManifests, regBlobs, pushes, toolchain>>

\* lines 92-110
PullAssemble(c) == PullAssembled(c, call[c].ref, Assemble(call[c].store))

(***************************************************************************)
(* Another client of the registry pushes an artifact of its own to ref.    *)
(***************************************************************************)
\* the client's manifest m and its blobs are stored and ref names m
ForeignPushed(r, m) ==
    /\ pushes < MaxPushes
    /\ pushes' = pushes + 1
    /\ regBlobs' = regBlobs \cup {d.Digest.of : d \in Children(m)}
    /\ regManifests' = regManifests \cup {m}
    /\ tags' = [tags EXCEPT ![r] = <<ManifestDesc(m)>>]
    /\ call' = [x \in Calls |->
          IF PushOn(x, r) THEN [call[x] EXCEPT !.ovl = TRUE, !.taint = TRUE]
          ELSE IF PullOn(x, r) THEN [call[x] EXCEPT !.quiet = FALSE]
          ELSE call[x]]
    /\ hist' = [hist EXCEPT ![r] =
                  [@ EXCEPT !.lastWriter = [kind |-> "foreign", pkg |-> NilPackage],
                            !.solo = <<>>, !.seqClean = FALSE, !.race = FALSE,
                            !.raceDiff = FALSE, !.firstOfPair = <<>>, !.seen = {},
                            !.again = FALSE]]
    /\ UNCHANGED toolchain

ForeignPush(r, art) == ForeignPushed(r, ForeignManifest(art))

(***************************************************************************)
(* Specifications.                                                         *)
(***************************************************************************)
\* one caller, one call at a time, every package and every failure, and
\* other clients' artifacts in the registry
NextSeq ==
    \/ \E r \in SeqRefs, pkg \in Packages, fault \in Faults :
         AllQuiet /\ PushStage(1, r, pkg, fault)
    \/ PushBlob(1)
    \/ PushCopyFail(1)
    \/ PushManifest(1)
    \/ PushReturn(1)
    \/ \E r \in SeqRefs : AllQuiet /\ PullResolve(1, r)
    \/ PullManifest(1)
    \/ PullBlob(1)
    \/ PullCopyFail(1)
    \/ PullAssemble(1)
    \/ \E r \in SeqRefs, art \in ForeignArtifacts : AllQuiet /\ ForeignPush(r, art)

SpecSeq == Init /\ [][NextSeq]_vars

\* a step of caller c, whose calls are on the references R: the copy of a
\* Push or of a Pull may fail at any point
CallStep(c, R) ==
    \/ \E r \in R, pkg \in RacePackages : PushStage(c, r, pkg, "none")
    \/ PushBlob(c)
    \/ PushCopyFail(c)
    \/ PushManifest(c)
    \/ PushReturn(c)
    \/ \E r \in R : PullResolve(c, r)
    \/ PullManifest(c)
    \/ PullBlob(c)
    \/ PullCopyFail(c)
    \/ PullAssemble(c)

\* the reference the concurrent callers share
RaceRefs == {"r1"}

\* two callers on one reference, whose calls interleave step by step
Next == \E c \in Calls : CallStep(c, RaceRefs)

Spec == Init /\ [][Next]_vars

\* the reference caller c uses when each caller has its own
RefOf(c) == IF c = 1 THEN "r1" ELSE "r2"

\* two callers, each on a reference of its own, whose calls interleave step
\* by step
NextApart == \E c \in Calls : CallStep(c, {RefOf(c)})

SpecApart == Init /\ [][NextApart]_vars

(***************************************************************************)
(* Properties.                                                             *)
(***************************************************************************)
\* caller c's call of op ("push" or "pull") has returned
Done(c, op) == call[c].op = op /\ call[c].pc = "done"

RECURSIVE CoerceFrom(_, _)
\* s from position i on, each byte that is not part of a valid UTF-8
\* sequence replaced by the encoding of U+FFFD
CoerceFrom(s, i) ==
    IF i > Len(s) THEN <<>>
    ELSE IF RuneLen(s, i) = 0 THEN ReplacementBytes \o CoerceFrom(s, i + 1)
    ELSE Slice(s, i, i + RuneLen(s, i) - 1) \o CoerceFrom(s, i + RuneLen(s, i))

ToValidUTF8(s) == CoerceFrom(s, 1)

\* the package a Pull returns for a pushed package p: the program bytes
\* as they are, Info as UTF-8
AsPulled(p) ==
    [ProgramFileBytes |-> p.ProgramFileBytes, Info |-> ToValidUTF8(p.Info)]

\* caller c's Pull has returned and its registry copy did not fail
Pulled(c) == Done(c, "pull") /\ call[c].fault = "none"

\* caller c's Pull, whose registry copy failed, returned nil and that error
CopyFailed(c) ==
    (Done(c, "pull") /\ call[c].fault = "Copy")
    => (call[c].resNil /\ call[c].err = FaultErr("Copy"))

\* manifest m has an entry titled name
HasEntry(m, name) == \E d \in Children(m) : d.Title = name

\* C1 as stated: a Pull after a Push that returned nil, no other Push on
\* the reference in between, returns nil and a package equal to the pushed
\* one, byte for byte in both fields (the Pull's registry copy not failing).
C1_RoundTripExact ==
    \A c \in Calls :
        (Pulled(c) /\ call[c].exp1 # <<>>)
        => (call[c].err = "" /\ ~call[c].resNil /\ call[c].res = call[c].exp1[1])

\* C1: a Pull after a Push that returned nil, no other Push on the
\* reference in between, whose registry copy does not fail, returns nil,
\* the pushed program bytes, and the pushed Info with every byte that is
\* not part of a valid UTF-8 sequence replaced by U+FFFD; the Info is the
\* pushed one when that is valid UTF-8.  Program bytes equal to the
\* config's JSON make no difference, nor does the toolchain.  A Pull whose
\* copy fails returns nil and the copy's error.
C1_RoundTrip ==
    \A c \in Calls :
        /\ CopyFailed(c)
        /\ (Pulled(c) /\ call[c].exp1 # <<>>)
           => /\ call[c].err = ""
              /\ ~call[c].resNil
              /\ call[c].res = AsPulled(call[c].exp1[1])
              /\ (ToValidUTF8(call[c].exp1[1].Info) = call[c].exp1[1].Info
                  => call[c].res = call[c].exp1[1])

\* a Pull returned the package of the Push before it, whose program bytes
\* are the JSON of its config
C1_Witness ==
    \E c \in Calls :
        /\ Done(c, "pull") /\ call[c].exp1 # <<>>
        /\ \E tc \in Toolchains :
             call[c].exp1[1].ProgramFileBytes =
                 Marshal([Info |-> call[c].exp1[1].Info], tc)
        /\ call[c].err = "" /\ call[c].res = call[c].exp1[1]

\* C2 as stated: after Pushes on one reference that ran one after another
\* and returned nil, a Pull returns the package of the most recent one
\* (the Pull's registry copy not failing).
C2_OverwriteExact ==
    \A c \in Calls :
        (Pulled(c) /\ call[c].exp2 # <<>>)
        => (call[c].err = "" /\ ~call[c].resNil /\ call[c].res = call[c].exp2[1])

\* C2: after Pushes on one reference that ran one after another and
\* returned nil, a Pull whose registry copy does not fail returns nil and
\* the package of the most recent one, its Info as UTF-8 (bytes outside
\* valid sequences replaced by U+FFFD).
C2_Overwrite ==
    \A c \in Calls :
        (Pulled(c) /\ call[c].exp2 # <<>>)
        => /\ call[c].err = ""
           /\ ~call[c].resNil
           /\ call[c].res = AsPulled(call[c].exp2[1])

\* a Pull returned the package of the second of two Pushes of different
\* packages
C2_Witness ==
    \E c \in Calls :
        /\ Done(c, "pull") /\ call[c].exp2 # <<>> /\ call[c].exp2over
        /\ call[c].err = "" /\ call[c].res = call[c].exp2[1]

\* C3: a Pull of an artifact whose manifest has no entry titled program.o,
\* or none titled config.json, returns a nil package and the error "could
\* not find ebpf bytes in manifest".
C3_MissingEntry ==
    \A c \in Calls :
        (/\ Pulled(c) /\ call[c].manifest # <<>>
         /\ \/ ~HasEntry(call[c].manifest[1], ebpfFileName)
            \/ ~HasEntry(call[c].manifest[1], configName))
        => (call[c].resNil /\ call[c].err = ErrLookup)

\* a Pull of an artifact with a program.o entry and no config.json entry
\* returned the lookup error
C3_Witness ==
    \E c \in Calls :
        /\ Done(c, "pull") /\ call[c].manifest # <<>>
        /\ HasEntry(call[c].manifest[1], ebpfFileName)
        /\ ~HasEntry(call[c].manifest[1], configName)
        /\ call[c].resNil /\ call[c].err = ErrLookup

\* config blobs that do not decode into EbpfConfig: {"info":1} and the
\* truncated {"info":"a"
MalformedConfigs ==
    {<<123, 34, 105, 110, 102, 111, 34, 58, 49, 125>>,
     <<123, 34, 105, 110, 102, 111, 34, 58, 34, 97, 34>>}

\* C4: a Pull that finds both entries and whose config.json bytes do not
\* decode into EbpfConfig returns the decoder's error and a nil package.
C4_MalformedConfig ==
    \A c \in Calls :
        (/\ Pulled(c) /\ call[c].manifest # <<>>
         /\ GetByName(call[c].store, ebpfFileName).ok
         /\ GetByName(call[c].store, configName).ok
         /\ GetByName(call[c].store, configName).byt \in MalformedConfigs)
        => (call[c].resNil /\ call[c].err = "json: decode error")

\* a Pull found both entries, the config truncated, and returned the
\* decoder's error
C4_Witness ==
    \E c \in Calls :
        /\ Done(c, "pull")
        /\ GetByName(call[c].store, ebpfFileName).ok
        /\ GetByName(call[c].store, configName) =
             [ok |-> TRUE, byt |-> <<123, 34, 105, 110, 102, 111, 34, 58, 34, 97, 34>>]
        /\ call[c].resNil /\ call[c].err = "json: decode error"

\* C5: a Push of a package with no program bytes stages a program.o layer
\* of size 0 and returns nil when no step fails, and a Pull after it,
\* whose registry copy does not fail, finds the program.o entry and
\* returns nil and a package whose ProgramFileBytes has length 0.
C5_EmptyProgram ==
    \A c \in Calls :
        /\ (/\ Done(c, "push") /\ call[c].fault = "none"
            /\ call[c].pkg.ProgramFileBytes = <<>>)
           => /\ call[c].err = ""
              /\ call[c].manifest # <<>>
              /\ call[c].manifest[1].Layers =
                   <<AddDesc(ebpfFileName, eBPFMediaType, <<>>)>>
              /\ call[c].manifest[1].Layers[1].Size = 0
              /\ GetByName(call[c].store, ebpfFileName) = [ok |-> TRUE, byt |-> <<>>]
        /\ (/\ Pulled(c) /\ call[c].exp1 # <<>>
            /\ call[c].exp1[1].ProgramFileBytes = <<>>)
           => /\ call[c].err = ""
              /\ ~call[c].resNil
              /\ Len(call[c].res.ProgramFileBytes) = 0
              /\ GetByName(call[c].store, ebpfFileName) = [ok |-> TRUE, byt |-> <<>>]

\* a Pull returned the package, without program bytes, of the Push before
\* it
C5_Witness ==
    \E c \in Calls :
        /\ Done(c, "pull") /\ call[c].exp1 # <<>>
        /\ call[c].exp1[1].ProgramFileBytes = <<>>
        /\ call[c].err = "" /\ ~call[c].resNil
        /\ call[c].res.ProgramFileBytes = <<>>

\* C6: the Pulls of a reference that return nil while nothing writes the
\* reference all return the same package, and a Pull leaves the tags of
\* the registry as they are.
C6_PullIdempotent ==
    \A r \in Refs : Cardinality(hist[r].seen) <= 1 /\ ~hist[r].pullWrote

\* a second Pull of an unchanged reference returned what the first did
C6_Witness ==
    \E r \in Refs : hist[r].again /\ Cardinality(hist[r].seen) = 1

\* C10: a Push in which Add, GenerateManifest or StoreManifest fails
\* returns that error without a write to the registry; a Push whose copy
\* fails returns the copy's error, whatever the copy has written by then;
\* a Push returns nil only when its copy did not fail and has put the
\* manifest under the reference.
C10_PushAborts ==
    \A c \in Calls :
        Done(c, "push")
        => /\ call[c].fault \in LocalFaults
              => /\ call[c].err = FaultErr(call[c].fault)
                 /\ ~call[c].touched /\ ~call[c].wrote
           /\ call[c].fault = "Copy" => call[c].err = FaultErr("Copy")
           /\ call[c].err = "" => (call[c].wrote /\ call[c].fault = "none")

\* a Push whose StoreManifest failed returned that error and wrote nothing
C10_Witness ==
    \E c \in Calls :
        /\ Done(c, "push") /\ call[c].fault = "StoreManifest"
        /\ call[c].err = FaultErr("StoreManifest")
        /\ ~call[c].touched

\* C7 as stated: after two Pushes on one reference that ran at the same
\* time and both returned nil, a Pull returns the package of the one whose
\* manifest the registry took last (the Pull's registry copy not failing).
C7_LastWriteWinsExact ==
    \A c \in Calls :
        (Pulled(c) /\ call[c].exp7 # <<>>)
        => (call[c].err = "" /\ ~call[c].resNil /\ call[c].res = call[c].exp7[1])

\* C7: after two Pushes on one reference that ran at the same time and
\* both returned nil, a Pull whose registry copy does not fail returns nil
\* and the package of the one whose manifest the registry took last, its
\* Info as UTF-8 (bytes outside valid sequences replaced by U+FFFD).
C7_LastWriteWins ==
    \A c \in Calls :
        (Pulled(c) /\ call[c].exp7 # <<>>)
        => /\ call[c].err = ""
           /\ ~call[c].resNil
           /\ call[c].res = AsPulled(call[c].exp7[1])

\* a Pull after two overlapping Pushes of different packages returned the
\* package of the later manifest
C7_Witness ==
    \E c \in Calls :
        /\ Done(c, "pull") /\ call[c].exp7 # <<>> /\ call[c].exp7diff
        /\ call[c].err = "" /\ call[c].res = call[c].exp7[1]

\* what caller c's Pull fetched and returned is what the Push of p staged
FromOnePush(c, p) ==
    /\ GetByName(call[c].store, ebpfFileName) =
         [ok |-> TRUE, byt |-> p.ProgramFileBytes]
    /\ \E tc \in Toolchains :
         /\ toolchain \in {"unobserved", tc}
         /\ GetByName(call[c].store, configName) =
              [ok |-> TRUE, byt |-> Marshal([Info |-> p.Info], tc)]
    /\ call[c].res = AsPulled(p)

\* C8: a Pull returns an error and no package, or nil and, while Pushes
\* write its reference, the program and the config of one of them: of the Push whose manifest
\* the reference named when the Pull resolved it, or of one that wrote the
\* reference during the Pull; never one's program with another's config.
C8_PullAtomic ==
    \A c \in Calls :
        /\ (Done(c, "pull") /\ call[c].err # "") => call[c].resNil
        /\ (Done(c, "pull") /\ call[c].err = "" /\ call[c].src.kind = "push")
           => \E p \in {call[c].src.pkg} \cup call[c].during : FromOnePush(c, p)

\* a Pull returned the package its reference named at the start although a
\* Push put another package there during the Pull
C8_Witness ==
    \E c \in Calls :
        /\ Done(c, "pull") /\ call[c].err = "" /\ call[c].src.kind = "push"
        /\ \E p \in call[c].during : p # call[c].src.pkg
        /\ FromOnePush(c, call[c].src.pkg)

RECURSIVE Filled(_, _, _)
\* the store st after the blobs of the descriptors ds are fetched into it
\* from the blobs bs
Filled(st, bs, ds) ==
    IF ds = {} THEN st
    ELSE Filled(MemSet(st, CHOOSE d \in ds : TRUE,
                       CHOOSE b \in bs : Digest(b) = (CHOOSE d \in ds : TRUE).Digest),
                bs, ds \ {CHOOSE d \in ds : TRUE})

\* what a Pull of r, run alone, returns from a registry of tags t,
\* manifests ms and blobs bs
Outcome(t, ms, bs, r) ==
    IF t[r] = <<>> THEN [err |-> "not found", nil |-> TRUE, pkg |-> NilPackage]
    ELSE Assemble(Filled(NewMemory, bs,
                         Children(CHOOSE m \in ms : ManifestDesc(m) = t[r][1])))

\* where caller c is in its call: a step of the specification is a step of
\* the one caller whose position it changes
Position(c) == <<call[c].op, call[c].pc, call[c].ref, call[c].todo, call[c].err>>

\* C9: a step of a call on one reference leaves the tag of every other
\* reference and what a Pull of it returns as they are, and leaves the
\* memory store of every other call as it is; a call starts with a store
\* of its own that holds nothing of another call.
C9_NoInterference ==
    [][\A c \in Calls :
         Position(c)' # Position(c)
         => /\ \A r \in Refs \ {call'[c].ref} :
                 /\ tags'[r] = tags[r]
                 /\ \/ UNCHANGED <<tags, regManifests, regBlobs>>
                    \/ Outcome(tags', regManifests', regBlobs', r)
                       = Outcome(tags, regManifests, regBlobs, r)
            /\ \A x \in Calls \ {c} :
                 /\ call'[x].store = call[x].store
                 /\ call'[x].manifest = call[x].manifest
                 /\ call'[x].res = call[x].res
            /\ (~InFlight(c) /\ call'[c].op = "pull")
               => call'[c].store = NewMemory
            /\ (~InFlight(c) /\ call'[c].op = "push")
               => \E tc \in Toolchains :
                    call'[c].store = Stage(call'[c].ref, call'[c].pkg, "none", tc).store]_vars

\* a Push has put its manifest under one reference while a Pull of another
\* reference, which names another package, is fetching
C9_Witness ==
    \E c \in Calls, x \in Calls :
        /\ call[c].op = "push" /\ call[c].wrote
        /\ call[x].op = "pull" /\ call[x].pc = "blobs"
        /\ call[x].ref # call[c].ref
        /\ call[x].src.kind = "push" /\ call[x].src.pkg # call[c].pkg

====
